---- MODULE Spec2Model ----
(***************************************************************************)
(* The generic CRUD layer of the backend: BaseRepository wraps a Prisma    *)
(* model delegate and normalises its failures, BaseService wraps one       *)
(* BaseRepository and adds the by-identifier operations.                   *)
(*                                                                         *)
(* The repository holds three copies of the Service and two of the         *)
(* Repository; "build" says which pair is wired:                           *)
(*   backend  src/backend/src/database/base.service.ts                     *)
(*            + src/backend/src/database/base.repository.ts                *)
(*   typed    src/src/base/base.service.ts                                 *)
(*            + src/src/database/base.repository.ts                        *)
(*   generic  src/unnamed/part_002 (imports ./base.repository, the         *)
(*            object-typed one) + src/backend/src/database/...             *)
(*                                                                         *)
(* Every Service or Repository method awaits the delegate exactly once and *)
(* touches no shared state before or after, so one call is one step.       *)
(***************************************************************************)
EXTENDS Integers, Sequences, FiniteSets, TLC

\* ------------------------------------------------------------------ bounds
MaxId == 2

\* ------------------------------------------------------------------ values
Ids == 1..MaxId
Emails == {"a@x.com", "b@x.com"}
Names == {"X", "Y"}

Builds == {"backend", "typed", "generic"}

\* A persisted record (TModel); id and email are the unique keys.
Model == [id : Ids, email : Emails, name : Names]

\* TCreateDto: a full record shape.
CreateDtos == Model

\* TUpdateDto: a partial record, any non-empty choice of the mutable fields.
WellFormedUpdate(dto) ==
    /\ ("email" \in DOMAIN dto => dto["email"] \in Emails)
    /\ ("name" \in DOMAIN dto => dto["name"] \in Names)

UpdateDtos ==
    {dto \in UNION {[d -> Emails \cup Names] :
                        d \in {{"email"}, {"name"}, {"email", "name"}}} :
        WellFormedUpdate(dto)}

\* An object with no keys; also what spreading undefined contributes.
\* repoParams?: { include?: object; select?: object }; the projections
\* themselves are opaque to this layer.
EmptyObj == [k \in {} |-> ""]
RepoParamsSet == {EmptyObj, [include |-> "inc", select |-> "sel"]}

\* ------------------------------------------------------ object spread {...}
\* { ...a, ...b }: the keys of both, b's value where both have the key.
Spread(a, b) ==
    [k \in (DOMAIN a) \cup (DOMAIN b) |-> IF k \in DOMAIN b THEN b[k] ELSE a[k]]

\* { [key]: v }
Obj1(key, v) == [k \in {key} |-> v]

\* ------------------------------------------------- what the delegate raises
\* error.meta.target of a P2002: absent, a list of field names, or a string
\* (the constraint's name, as some connectors report it).
NoTarget == [shape |-> "absent", val |-> <<>>]
ListTarget(fields) == [shape |-> "list", val |-> fields]
StringTarget(s) == [shape |-> "string", val |-> <<s>>]

\* known: error instanceof Prisma.PrismaClientKnownRequestError
\* code:  error.code ("" when the error has none)
\* text:  error.message
RawError(known, code, target, text) ==
    [known |-> known, code |-> code, target |-> target, text |-> text]

UniqueViolation(target) == RawError(TRUE, "P2002", target, "Unique constraint failed")
RecordNotFound == RawError(TRUE, "P2025", NoTarget, "Record not found")

\* Failures a delegate call may end with whatever the stored records are:
\* the two recognised codes, the unique-violation code on an error that is
\* no PrismaClientKnownRequestError, an unrecognised code, an error with no
\* code at all.
Faults ==
    {UniqueViolation(ListTarget(<<>>)),
     RecordNotFound,
     RawError(FALSE, "P2002", NoTarget, "Unique constraint failed"),
     RawError(TRUE, "P1001", NoTarget, "Can't reach database server"),
     RawError(FALSE, "", NoTarget, "connect ECONNREFUSED")}

\* The shapes meta.target takes when a create or update really collides.
CollisionTargets(fields) ==
    {ListTarget(fields), NoTarget, StringTarget("User_" \o fields[1] \o "_key")}

\* The delegate's behaviour in one call: "ok" (it answers from the stored
\* records) or one of Faults (it fails, leaving the records alone).
NoFault == RawError(FALSE, "ok", NoTarget, "")
Behaviours == {NoFault} \cup Faults

\* ------------------------------------------------------ delegate answers
NoError == RawError(FALSE, "", NoTarget, "")

\* tag: "model" | "null" | "models" | "count" | "throw"
Ans(tag, val, n, err) == [tag |-> tag, val |-> val, n |-> n, err |-> err]
AnsModel(m) == Ans("model", <<m>>, 0, NoError)
AnsNull == Ans("null", <<>>, 0, NoError)
AnsModels(ms) == Ans("models", ms, 0, NoError)
AnsCount(n) == Ans("count", <<>>, n, NoError)
AnsThrow(e) == Ans("throw", <<>>, 0, e)

\* --------------------------------------------------- the storage delegate
\* The records a where filter matches: every key of the filter agrees.
Matching(store, where) ==
    {r \in store : \A k \in DOMAIN where : r[k] = where[k]}

RECURSIVE SortById(_)
SortById(S) ==
    IF S = {} THEN <<>>
    ELSE LET m == CHOOSE r \in S : \A q \in S : r.id <= q.id
         IN <<m>> \o SortById(S \ {m})

Take(s, n) == SubSeq(s, 1, IF n < Len(s) THEN n ELSE Len(s))

\* delegate.findUnique({ where, include?, select? })
DelegateFindUnique(store, params, b) ==
    IF b # NoFault THEN [store |-> store, ans |-> AnsThrow(b)]
    ELSE LET hit == Matching(store, params.where)
         IN [store |-> store,
             ans |-> IF hit = {} THEN AnsNull ELSE AnsModel(CHOOSE r \in hit : TRUE)]

\* delegate.findMany(params?)
DelegateFindMany(store, params, b) ==
    IF b # NoFault THEN [store |-> store, ans |-> AnsThrow(b)]
    ELSE LET hit == IF "where" \in DOMAIN params
                    THEN Matching(store, params.where) ELSE store
             all == SortById(hit)
         IN [store |-> store,
             ans |-> AnsModels(IF "take" \in DOMAIN params
                               THEN Take(all, params.take) ELSE all)]

\* delegate.count(params?)
DelegateCount(store, params, b) ==
    IF b # NoFault THEN [store |-> store, ans |-> AnsThrow(b)]
    ELSE [store |-> store,
          ans |-> AnsCount(Cardinality(IF "where" \in DOMAIN params
                                       THEN Matching(store, params.where)
                                       ELSE store))]

\* The unique key a record collides on with the records of others: the
\* primary key first, then email; <<>> when it collides on none.
Collision(others, m) ==
    IF \E r \in others : r.id = m.id THEN <<"id">>
    ELSE IF \E r \in others : r.email = m.email THEN <<"email">>
    ELSE <<>>

\* delegate.create({ data, include?, select? }); shape picks the form of
\* meta.target when the data collides.
DelegateCreate(store, params, b, shape) ==
    IF b # NoFault THEN [store |-> store, ans |-> AnsThrow(b)]
    ELSE LET m == params.data
             hit == Collision(store, m)
         IN IF hit # <<>>
            THEN [store |-> store,
                  ans |-> AnsThrow(UniqueViolation(
                      CHOOSE t \in CollisionTargets(hit) : t.shape = shape))]
            ELSE [store |-> store \cup {m}, ans |-> AnsModel(m)]

\* A record with the fields of data overwritten.
Patched(r, data) ==
    [f \in DOMAIN r |-> IF f \in DOMAIN data THEN data[f] ELSE r[f]]

\* delegate.update({ where, data, include?, select? })
DelegateUpdate(store, params, b, shape) ==
    IF b # NoFault THEN [store |-> store, ans |-> AnsThrow(b)]
    ELSE LET hit == Matching(store, params.where)
         IN IF hit = {} THEN [store |-> store, ans |-> AnsThrow(RecordNotFound)]
            ELSE LET old == CHOOSE r \in hit : TRUE
                     new == Patched(old, params.data)
                     clash == Collision(store \ {old}, new)
                 IN IF clash # <<>>
                    THEN [store |-> store,
                          ans |-> AnsThrow(UniqueViolation(
                              CHOOSE t \in CollisionTargets(clash) : t.shape = shape))]
                    ELSE [store |-> (store \ {old}) \cup {new}, ans |-> AnsModel(new)]

\* delegate.delete({ where, include?, select? })
DelegateDelete(store, params, b) ==
    IF b # NoFault THEN [store |-> store, ans |-> AnsThrow(b)]
    ELSE LET hit == Matching(store, params.where)
         IN IF hit = {} THEN [store |-> store, ans |-> AnsThrow(RecordNotFound)]
            ELSE LET old == CHOOSE r \in hit : TRUE
                 IN [store |-> store \ {old}, ans |-> AnsModel(old)]

\* ------------------------------------------------ outcomes of a method call
\* kind: "model" | "null" | "models" | "count" (returned), or the exception
\* thrown: "NotFoundError" (NotFoundException), "ConflictError"
\* (ConflictException), "InternalError" (InternalServerErrorException),
\* "TypeError" (raised by the runtime). msg is the exception's message, a
\* sequence of text pieces.
Out(kind, val, n, msg) == [kind |-> kind, val |-> val, n |-> n, msg |-> msg]
Returned(ans) == Out(ans.tag, ans.val, ans.n, <<>>)
Thrown(kind, msg) == Out(kind, <<>>, 0, msg)

ReturnKinds == {"model", "null", "models", "count"}
ErrorKinds == {"NotFoundError", "ConflictError", "InternalError"}

\* What a call did: the records after it, the delegate invocations it made,
\* what it wrote to the console, its outcome; repo is the outcome of the
\* Repository method, out the outcome the caller of the Service sees.
Result(store, calls, log, out) ==
    [store |-> store, calls |-> calls, log |-> log, repo |-> out, out |-> out]

\* The same call with the Service's console line and the Service's outcome.
Rethrown(r, log, out) ==
    [store |-> r.store, calls |-> r.calls, log |-> log, repo |-> r.repo, out |-> out]

Invocation(op, params, ans) == [op |-> op, params |-> params, ans |-> ans]

\* ------------------------------------------------------- BaseRepository
RepoVariants == {"backend", "typed"}

\* logError without the code of the error.
M_LogError_NoCode(message, error, context) ==
    [src |-> "repository", op |-> message, error |-> <<error.text>>,
     code |-> "", context |-> context]

\* console.error(`[...] ${message}`, { error: error?.message ?? error,
\*                                     code: error?.code, context })
LogError(message, error, context) ==
    [src |-> "repository", op |-> message, error |-> <<error.text>>,
     code |-> error.code, context |-> context]

\* Array.prototype.join(', ')
RECURSIVE Join(_)
Join(fields) ==
    IF Len(fields) = 0 THEN <<>>
    ELSE IF Len(fields) = 1 THEN <<fields[1]>>
    ELSE <<fields[1], ", ">> \o Join(Tail(fields))

DetailsUnavailable == <<"details unavailable">>

\* getTargetFields of the object-typed Repository: joins meta.target when it
\* is truthy and an array, the fallback otherwise.
GetTargetFieldsBackend(error) ==
    IF error.target.shape = "list"
    THEN [threw |-> FALSE, text |-> Join(error.target.val)]
    ELSE [threw |-> FALSE, text |-> DetailsUnavailable]

\* getTargetFields of the Prisma-typed Repository:
\* error.meta?.target?.join(', ') ?? 'details unavailable'. A target that is
\* not nullish and has no join makes the call throw a TypeError.
GetTargetFieldsTyped(error) ==
    IF error.target.shape = "absent"
    THEN [threw |-> FALSE, text |-> DetailsUnavailable]
    ELSE IF error.target.shape = "list"
    THEN [threw |-> FALSE, text |-> Join(error.target.val)]
    ELSE [threw |-> TRUE, text |-> <<"error.meta?.target?.join is not a function">>]

GetTargetFields(variant, error) ==
    IF variant = "typed" THEN GetTargetFieldsTyped(error)
    ELSE GetTargetFieldsBackend(error)

\* throw new ConflictException(`Unique constraint violation: ${getTargetFields(error)}`)
ThrowConflict(variant, error) ==
    LET t == GetTargetFields(variant, error)
    IN IF t.threw THEN Thrown("TypeError", t.text)
       ELSE Thrown("ConflictError", <<"Unique constraint violation: ">> \o t.text)

\* { where: params.where } and the like: a key whose value is undefined
\* carries nothing.
Context(key, params) ==
    IF key \in DOMAIN params THEN Obj1(key, params[key]) ELSE EmptyObj

\* BaseRepository.findUnique
RepoFindUnique(variant, store, params, b) ==
    LET d == DelegateFindUnique(store, params, b)
        call == <<Invocation("findUnique", params, d.ans)>>
    IN IF d.ans.tag # "throw" THEN Result(d.store, call, <<>>, Returned(d.ans))
       ELSE Result(d.store, call,
                   <<LogError("findUnique", d.ans.err, Context("where", params))>>,
                   Thrown("InternalError", <<"Error retrieving the record.">>))

\* BaseRepository.findMany
RepoFindMany(variant, store, params, b) ==
    LET d == DelegateFindMany(store, params, b)
        call == <<Invocation("findMany", params, d.ans)>>
    IN IF d.ans.tag # "throw" THEN Result(d.store, call, <<>>, Returned(d.ans))
       ELSE Result(d.store, call,
                   <<LogError("findMany", d.ans.err, Obj1("params", params))>>,
                   Thrown("InternalError", <<"Error retrieving records.">>))

\* BaseRepository.create
RepoCreate(variant, store, params, b, shape) ==
    LET d == DelegateCreate(store, params, b, shape)
        call == <<Invocation("create", params, d.ans)>>
        e == d.ans.err
        log == <<LogError("create", e, Context("data", params))>>
    IN IF d.ans.tag # "throw" THEN Result(d.store, call, <<>>, Returned(d.ans))
       ELSE IF e.known /\ e.code = "P2002"
       THEN Result(d.store, call, log, ThrowConflict(variant, e))
       ELSE Result(d.store, call, log,
                   Thrown("InternalError", <<"Error creating the record.">>))

\* BaseRepository.update
RepoUpdate(variant, store, params, b, shape) ==
    LET d == DelegateUpdate(store, params, b, shape)
        call == <<Invocation("update", params, d.ans)>>
        e == d.ans.err
        log == <<LogError("update", e, Context("where", params))>>
    IN IF d.ans.tag # "throw" THEN Result(d.store, call, <<>>, Returned(d.ans))
       ELSE IF e.known /\ e.code = "P2025"
       THEN Result(d.store, call, log,
                   Thrown("NotFoundError", <<"Record to update not found.">>))
       ELSE IF e.known /\ e.code = "P2002"
       THEN Result(d.store, call, log, ThrowConflict(variant, e))
       ELSE Result(d.store, call, log,
                   Thrown("InternalError", <<"Error updating the record.">>))

\* BaseRepository.delete logging only the failures it does not recognise.
M_RepoDelete_LogsUnknownOnly(variant, store, params, b) ==
    LET d == DelegateDelete(store, params, b)
        call == <<Invocation("delete", params, d.ans)>>
        e == d.ans.err
        log == <<LogError("delete", e, Context("where", params))>>
    IN IF d.ans.tag # "throw" THEN Result(d.store, call, <<>>, Returned(d.ans))
       ELSE IF e.known /\ e.code = "P2025"
       THEN Result(d.store, call, <<>>,
                   Thrown("NotFoundError", <<"Record to delete not found.">>))
       ELSE Result(d.store, call, log,
                   Thrown("InternalError", <<"Error deleting the record.">>))

\* BaseRepository.delete
RepoDelete(variant, store, params, b) ==
    LET d == DelegateDelete(store, params, b)
        call == <<Invocation("delete", params, d.ans)>>
        e == d.ans.err
        log == <<LogError("delete", e, Context("where", params))>>
    IN IF d.ans.tag # "throw" THEN Result(d.store, call, <<>>, Returned(d.ans))
       ELSE IF e.known /\ e.code = "P2025"
       THEN Result(d.store, call, log,
                   Thrown("NotFoundError", <<"Record to delete not found.">>))
       ELSE Result(d.store, call, log,
                   Thrown("InternalError", <<"Error deleting the record.">>))

\* BaseRepository.count
RepoCount(variant, store, params, b) ==
    LET d == DelegateCount(store, params, b)
        call == <<Invocation("count", params, d.ans)>>
    IN IF d.ans.tag # "throw" THEN Result(d.store, call, <<>>, Returned(d.ans))
       ELSE Result(d.store, call,
                   <<LogError("count", d.ans.err, Context("where", params))>>,
                   Thrown("InternalError", <<"Error counting records.">>))

\* ---------------------------------------------------------- BaseService
\* The Repository copy each Service copy is wired to.
RepoVariant(build) == IF build = "typed" THEN "typed" ELSE "backend"

\* UserService.getEntityName
GetEntityName(plural) == IF plural THEN "users" ELSE "user"

\* protected readonly idKey: string = 'id'
\* A constructor whose default identifier field is another name.
M_DefaultIdKey_Underscore == "_id"

DefaultIdKey == "id"

\* console.error(`[...] Error during <op> ...:`, error)
SvcLog(op, caught, context) ==
    [src |-> "service", op |-> op, error |-> caught.msg, code |-> "",
     context |-> context]

\* The messages of the InternalServerErrorException and NotFoundException the
\* Service throws; the copy in part_002 names no entity.
MsgCreate(build) ==
    IF build = "generic" THEN <<"Could not create the record.">>
    ELSE <<"Could not create ", GetEntityName(FALSE), ".">>

\* The findMany message with the singular name.
M_MsgFindMany_Singular(build) ==
    IF build = "generic" THEN <<"Could not retrieve records.">>
    ELSE <<"Could not retrieve ", GetEntityName(FALSE), ".">>

MsgFindMany(build) ==
    IF build = "generic" THEN <<"Could not retrieve records.">>
    ELSE <<"Could not retrieve ", GetEntityName(TRUE), ".">>

MsgFindOneById(build, id) ==
    IF build = "generic"
    THEN <<"An error occurred while retrieving record with ID ", ToString(id), ".">>
    ELSE <<"An error occurred while retrieving ", GetEntityName(FALSE),
           " with ID ", ToString(id), ".">>

\* The not-found message without the identifier.
M_MsgNotFound_NoId(build, id) ==
    IF build = "generic" THEN <<"Record not found.">>
    ELSE <<GetEntityName(FALSE), " not found.">>

MsgNotFound(build, id) ==
    IF build = "generic" THEN <<"Record with ID ", ToString(id), " not found.">>
    ELSE <<GetEntityName(FALSE), " with ID ", ToString(id), " not found.">>

MsgFindUnique(build) ==
    IF build = "generic"
    THEN <<"Could not retrieve the record by unique criteria.">>
    ELSE <<"Could not retrieve ", GetEntityName(FALSE), ".">>

MsgUpdate(build, id) ==
    IF build = "generic" THEN <<"Could not update record with ID ", ToString(id), ".">>
    ELSE <<"Could not update ", GetEntityName(FALSE), " with ID ", ToString(id), ".">>

MsgDelete(build, id) ==
    IF build = "generic" THEN <<"Could not delete record with ID ", ToString(id), ".">>
    ELSE <<"Could not delete ", GetEntityName(FALSE), " with ID ", ToString(id), ".">>

\* catch (error) { if (error instanceof <one of rethrow>) throw error;
\*                 console.error(...); throw new InternalServerErrorException(msg) }
\* applied to what the Repository call r did.
CatchAndWrap(r, rethrow, op, context, msg) ==
    IF r.out.kind \in ReturnKinds \/ r.out.kind \in rethrow THEN r
    ELSE Rethrown(r, Append(r.log, SvcLog(op, r.out, context)),
                  Thrown("InternalError", msg))

\* BaseService.create with the payload mapped on the way: the name is
\* overwritten with a default instead of passed through.
M_Create_MapsName(build, idKey, store, dto, repoParams, b, shape) ==
    CatchAndWrap(
        RepoCreate(RepoVariant(build), store,
                   Spread([data |-> [dto EXCEPT !.name = "X"]], repoParams), b, shape),
        {"ConflictError"}, "create", EmptyObj, MsgCreate(build))

\* BaseService.create without its try/catch: whatever the Repository throws
\* reaches the caller.
M_Create_NoCatch(build, idKey, store, dto, repoParams, b, shape) ==
    RepoCreate(RepoVariant(build), store, Spread([data |-> dto], repoParams), b, shape)

\* BaseService.create
SvcCreate(build, idKey, store, dto, repoParams, b, shape) ==
    CatchAndWrap(
        RepoCreate(RepoVariant(build), store,
                   Spread([data |-> dto], repoParams), b, shape),
        {"ConflictError"}, "create", EmptyObj, MsgCreate(build))

\* BaseService.findMany
SvcFindMany(build, idKey, store, repoParams, b) ==
    CatchAndWrap(
        RepoFindMany(RepoVariant(build), store, repoParams, b),
        {}, "findMany", EmptyObj, MsgFindMany(build))

\* BaseService.findOneById without the check of the entity: null is returned.
M_FindOneById_ReturnsNull(build, idKey, store, id, repoParams, b) ==
    CatchAndWrap(
        RepoFindUnique(RepoVariant(build), store,
                       Spread([where |-> Obj1(idKey, id)], repoParams), b),
        {}, "findOneById", Obj1("id", ToString(id)), MsgFindOneById(build, id))

\* BaseService.findOneById calling the Repository's delete instead of its
\* findUnique: the read consumes the record.
M_FindOneById_Consumes(build, idKey, store, id, repoParams, b) ==
    CatchAndWrap(
        RepoDelete(RepoVariant(build), store,
                   Spread([where |-> Obj1(idKey, id)], repoParams), b),
        {}, "findOneById", Obj1("id", ToString(id)), MsgFindOneById(build, id))

\* BaseService.findOneById that passes the filter alone: repoParams is
\* not spread into the Repository's params.
M_FindOneById_DropsParams(build, idKey, store, id, repoParams, b) ==
    LET where == Obj1(idKey, id)
        r == CatchAndWrap(
                RepoFindUnique(RepoVariant(build), store, [where |-> where], b),
                {}, "findOneById", Obj1("id", ToString(id)),
                MsgFindOneById(build, id))
    IN IF r.out.kind = "null"
       THEN Rethrown(r, r.log, Thrown("NotFoundError", MsgNotFound(build, id)))
       ELSE r

\* BaseService.findOneById
SvcFindOneById(build, idKey, store, id, repoParams, b) ==
    LET where == Obj1(idKey, id)
        r == CatchAndWrap(
                RepoFindUnique(RepoVariant(build), store,
                               Spread([where |-> where], repoParams), b),
                {}, "findOneById", Obj1("id", ToString(id)),
                MsgFindOneById(build, id))
    IN IF r.out.kind = "null"
       THEN Rethrown(r, r.log, Thrown("NotFoundError", MsgNotFound(build, id)))
       ELSE r

\* BaseService.findUnique with findOneById's translation of null.
M_FindUnique_TranslatesNull(build, idKey, store, params, b) ==
    LET r == CatchAndWrap(
                RepoFindUnique(RepoVariant(build), store, params, b),
                {}, "findUnique", EmptyObj, MsgFindUnique(build))
    IN IF r.out.kind = "null"
       THEN Rethrown(r, r.log, Thrown("NotFoundError", MsgFindUnique(build)))
       ELSE r

\* BaseService.findUnique
SvcFindUnique(build, idKey, store, params, b) ==
    CatchAndWrap(
        RepoFindUnique(RepoVariant(build), store, params, b),
        {}, "findUnique", EmptyObj, MsgFindUnique(build))

\* BaseService.update with the payload mapped on the way: the name is lost.
M_Update_DropsName(build, idKey, store, id, dto, repoParams, b, shape) ==
    CatchAndWrap(
        RepoUpdate(RepoVariant(build), store,
                   Spread([where |-> Obj1(idKey, id),
                           data |-> [k \in (DOMAIN dto) \ {"name"} |-> dto[k]]],
                          repoParams), b, shape),
        {"NotFoundError", "ConflictError"}, "update", Obj1("id", ToString(id)),
        MsgUpdate(build, id))

\* BaseService.update re-throwing the NotFoundException only: a
\* ConflictException is wrapped like an unexpected failure.
M_Update_WrapsConflict(build, idKey, store, id, dto, repoParams, b, shape) ==
    CatchAndWrap(
        RepoUpdate(RepoVariant(build), store,
                   Spread([where |-> Obj1(idKey, id), data |-> dto], repoParams),
                   b, shape),
        {"NotFoundError"}, "update", Obj1("id", ToString(id)), MsgUpdate(build, id))

\* BaseService.update in which the handling of the Repository's record throws
\* after the write: the catch turns that into an InternalError.
M_Update_ThrowsAfterWrite(build, idKey, store, id, dto, repoParams, b, shape) ==
    LET r == CatchAndWrap(
                RepoUpdate(RepoVariant(build), store,
                           Spread([where |-> Obj1(idKey, id), data |-> dto], repoParams),
                           b, shape),
                {"NotFoundError", "ConflictError"}, "update",
                Obj1("id", ToString(id)), MsgUpdate(build, id))
    IN IF r.out.kind = "model"
       THEN Rethrown(r, r.log, Thrown("InternalError", MsgUpdate(build, id)))
       ELSE r

\* BaseService.update
SvcUpdate(build, idKey, store, id, dto, repoParams, b, shape) ==
    LET where == Obj1(idKey, id)
    IN CatchAndWrap(
        RepoUpdate(RepoVariant(build), store,
                   Spread([where |-> where, data |-> dto], repoParams), b, shape),
        {"NotFoundError", "ConflictError"}, "update", Obj1("id", ToString(id)),
        MsgUpdate(build, id))

\* BaseService.delete that re-throws nothing: the Repository's
\* NotFoundException is wrapped like any other failure.
M_Delete_WrapsNotFound(build, idKey, store, id, b) ==
    CatchAndWrap(
        RepoDelete(RepoVariant(build), store, [where |-> Obj1(idKey, id)], b),
        {}, "delete", Obj1("id", ToString(id)), MsgDelete(build, id))

\* BaseService.delete calling the Repository's findUnique instead of its
\* delete: the record is returned and stays.
M_Delete_OnlyLooksUp(build, idKey, store, id, b) ==
    CatchAndWrap(
        RepoFindUnique(RepoVariant(build), store, [where |-> Obj1(idKey, id)], b),
        {"NotFoundError"}, "delete", Obj1("id", ToString(id)), MsgDelete(build, id))

\* BaseService.delete that looks the record up with findOneById before it
\* deletes it.
M_Delete_LooksUpFirst(build, idKey, store, id, b) ==
    LET f == SvcFindOneById(build, idKey, store, id, EmptyObj, b)
        r == CatchAndWrap(
                RepoDelete(RepoVariant(build), f.store, [where |-> Obj1(idKey, id)], b),
                {"NotFoundError"}, "delete", Obj1("id", ToString(id)),
                MsgDelete(build, id))
    IN IF f.out.kind # "model" THEN f
       ELSE [r EXCEPT !.calls = f.calls \o r.calls, !.log = f.log \o r.log]

\* BaseService.delete
SvcDelete(build, idKey, store, id, b) ==
    LET where == Obj1(idKey, id)
    IN CatchAndWrap(
        RepoDelete(RepoVariant(build), store, [where |-> where], b),
        {"NotFoundError"}, "delete", Obj1("id", ToString(id)),
        MsgDelete(build, id))

\* ------------------------------------------------------------------ state
VARIABLES
    build,      \* which copy of the Service/Repository pair is wired
    idKey,      \* BaseService.idKey, set by the constructor
    store,      \* the records behind the delegate
    last,       \* the latest call: who was called, with what, what it did
    deleted,    \* ids removed by a successful Service.delete and not created since
    prevRead,   \* when last is a findOneById directly after a findOneById with
                \* the same arguments and the same delegate behaviour: how
                \* that earlier call went
    pending     \* two calls in flight at once: the records when they were
                \* issued, and how far each call has got

vars == <<build, idKey, store, last, deleted, prevRead, pending>>

\* The inputs callers pass.
WhereSet == {Obj1("id", i) : i \in Ids} \cup {Obj1("email", e) : e \in Emails}
FindUniqueParams ==
    {[where |-> w] : w \in WhereSet}
    \cup {Spread([where |-> Obj1("id", 1)], rp) : rp \in RepoParamsSet}
FindManyParams == {EmptyObj, [where |-> Obj1("name", "X")], [take |-> 1]}
CountParams == {EmptyObj, [where |-> Obj1("name", "X")]}
CreateInputs ==
    {<<dto, EmptyObj>> : dto \in CreateDtos}
    \cup {<<[id |-> 1, email |-> "a@x.com", name |-> "X"], rp>> : rp \in RepoParamsSet}
UpdateInputs ==
    {<<dto, EmptyObj>> : dto \in UpdateDtos}
    \cup {<<[name |-> "Y"], rp>> : rp \in RepoParamsSet}
Shapes == {"list", "absent", "string"}

\* How the delegate may behave in a call. What the layer does with a failure
\* depends on the failure and on the identifier alone, so failures are tried
\* on one input of each method (the probe) and every input is tried on a
\* delegate that answers from the records.
ProbeCreate == <<[id |-> 1, email |-> "a@x.com", name |-> "X"], EmptyObj>>
ProbeUpdate == <<[name |-> "Y"], EmptyObj>>
ProbeFindUnique == [where |-> Obj1("id", 1)]
BehavioursFor(probe) == IF probe THEN Behaviours ELSE {NoFault}
ShapesFor(b) == IF b = NoFault THEN Shapes ELSE {"list"}

\* op is the method called; id, dto, params are its arguments (0 and the empty
\* object where it takes none); b is how the delegate behaved; calls, log,
\* repo and out are what the call did.
Call(op, id, dto, params, b, r) ==
    [op |-> op, id |-> id, dto |-> dto, params |-> params, b |-> b,
     calls |-> r.calls, log |-> r.log, repo |-> r.repo, out |-> r.out]

NoOut == Out("none", <<>>, 0, <<>>)

NoCall ==
    [op |-> "none", id |-> 0, dto |-> EmptyObj, params |-> EmptyObj,
     b |-> NoFault, calls |-> <<>>, log |-> <<>>, repo |-> NoOut, out |-> NoOut]

NoRead == [seen |-> FALSE, b |-> NoFault, out |-> NoOut]

NoPending == [active |-> FALSE, base |-> {}, slots |-> <<>>]

Init ==
    /\ build \in Builds
    /\ idKey = DefaultIdKey
    /\ store = {}
    /\ last = NoCall
    /\ deleted = {}
    /\ prevRead = NoRead
    /\ pending = NoPending

\* ---------------------------------------------------------------- actions
ServiceCreate ==
    \E in \in CreateInputs :
    \E b \in BehavioursFor(in = ProbeCreate) :
    \E shape \in ShapesFor(b) :
        LET r == SvcCreate(build, idKey, store, in[1], in[2], b, shape)
        IN /\ store' = r.store
           /\ last' = Call("create", 0, in[1], in[2], b, r)
           /\ deleted' = IF r.out.kind = "model" THEN deleted \ {in[1].id} ELSE deleted
           /\ prevRead' = NoRead
           /\ UNCHANGED <<pending, build, idKey>>

ServiceFindMany ==
    \E p \in FindManyParams :
    \E b \in BehavioursFor(p = EmptyObj) :
        LET r == SvcFindMany(build, idKey, store, p, b)
        IN /\ store' = r.store
           /\ last' = Call("findMany", 0, EmptyObj, p, b, r)
           /\ prevRead' = NoRead
           /\ UNCHANGED <<pending, build, idKey, deleted>>

ServiceFindOneById ==
    \E id \in Ids, rp \in RepoParamsSet :
    \E b \in BehavioursFor(rp = EmptyObj) :
        LET r == SvcFindOneById(build, idKey, store, id, rp, b)
        IN /\ store' = r.store
           /\ last' = Call("findOneById", id, EmptyObj, rp, b, r)
           /\ prevRead' = IF /\ last.op = "findOneById" /\ last.id = id
                             /\ last.params = rp /\ last.b = b
                          THEN [seen |-> TRUE, b |-> last.b, out |-> last.out]
                          ELSE NoRead
           /\ UNCHANGED <<pending, build, idKey, deleted>>

ServiceFindUnique ==
    \E p \in FindUniqueParams :
    \E b \in BehavioursFor(p = ProbeFindUnique) :
        LET r == SvcFindUnique(build, idKey, store, p, b)
        IN /\ store' = r.store
           /\ last' = Call("findUnique", 0, EmptyObj, p, b, r)
           /\ prevRead' = NoRead
           /\ UNCHANGED <<pending, build, idKey, deleted>>

ServiceUpdate ==
    \E id \in Ids, in \in UpdateInputs :
    \E b \in BehavioursFor(in = ProbeUpdate) :
    \E shape \in ShapesFor(b) :
        LET r == SvcUpdate(build, idKey, store, id, in[1], in[2], b, shape)
        IN /\ store' = r.store
           /\ last' = Call("update", id, in[1], in[2], b, r)
           /\ prevRead' = NoRead
           /\ UNCHANGED <<pending, build, idKey, deleted>>

ServiceDelete ==
    \E id \in Ids, b \in Behaviours :
        LET r == SvcDelete(build, idKey, store, id, b)
        IN /\ store' = r.store
           /\ last' = Call("delete", id, EmptyObj, EmptyObj, b, r)
           /\ deleted' = IF r.out.kind = "model" THEN deleted \cup {id} ELSE deleted
           /\ prevRead' = NoRead
           /\ UNCHANGED <<pending, build, idKey>>

\* BaseRepository.count has no Service method in front of it: it is called
\* on the Repository.
RepositoryCount ==
    \E p \in CountParams :
    \E b \in BehavioursFor(p = EmptyObj) :
        LET r == RepoCount(RepoVariant(build), store, p, b)
        IN /\ store' = r.store
           /\ last' = Call("count", 0, EmptyObj, p, b, r)
           /\ prevRead' = NoRead
           /\ UNCHANGED <<pending, build, idKey, deleted>>

Next ==
    \/ ServiceCreate
    \/ ServiceFindMany
    \/ ServiceFindOneById
    \/ ServiceFindUnique
    \/ ServiceUpdate
    \/ ServiceDelete
    \/ RepositoryCount

Spec == Init /\ [][Next]_vars

\* ------------------------------------------------- two calls in flight
\* Every method is async with one await, of the one delegate call: a second
\* call can enter its method while the first waits for the delegate, and the
\* delegate answers one invocation at a time.
Slots == {1, 2}

Unreachable == RawError(TRUE, "P1001", NoTarget, "Can't reach database server")

ConcCall(op, id, dto, b) == [op |-> op, id |-> id, dto |-> dto, b |-> b]

ConcCalls ==
    {ConcCall("findOneById", i, EmptyObj, NoFault) : i \in Ids}
    \cup {ConcCall("delete", i, EmptyObj, b) : i \in Ids, b \in {NoFault, Unreachable}}
    \cup {ConcCall("update", i, dto, NoFault) :
             i \in Ids, dto \in {[name |-> "Y"], [email |-> "b@x.com"]}}
    \cup {ConcCall("create", 0, dto, NoFault) : dto \in {d \in CreateDtos : d.name = "X"}}

\* The Service method of call c run on records st.
ServiceCall(c, st) ==
    CASE c.op = "create" -> SvcCreate(build, idKey, st, c.dto, EmptyObj, c.b, "list")
      [] c.op = "findOneById" -> SvcFindOneById(build, idKey, st, c.id, EmptyObj, c.b)
      [] c.op = "update" -> SvcUpdate(build, idKey, st, c.id, c.dto, EmptyObj, c.b, "list")
      [] c.op = "delete" -> SvcDelete(build, idKey, st, c.id, c.b)

\* The records earlier creates can have left: ids and emails are unique.
Stores ==
    {s \in SUBSET Model :
        \A r1, r2 \in s : (r1.id = r2.id \/ r1.email = r2.email) => r1 = r2}

ConcInit ==
    /\ build \in Builds
    /\ idKey = DefaultIdKey
    /\ store \in Stores
    /\ last = NoCall
    /\ deleted = {}
    /\ prevRead = NoRead
    /\ pending = NoPending

\* Two callers enter their methods: both calls are in flight before either
\* has reached the delegate.
ConcIssue ==
    /\ ~pending.active
    /\ \E c1, c2 \in ConcCalls :
          pending' = [active |-> TRUE, base |-> store,
                      slots |-> <<[call |-> c1, pc |-> "issued", out |-> NoOut],
                                  [call |-> c2, pc |-> "issued", out |-> NoOut]>>]
    /\ UNCHANGED <<build, idKey, store, last, deleted, prevRead>>

\* A stale answer: the call is answered from the records as they were when
\* it was issued.
M_ConcInvoke_Stale(i) ==
    /\ pending.active
    /\ pending.slots[i].pc = "issued"
    /\ LET r == ServiceCall(pending.slots[i].call, pending.base)
       IN /\ store' = r.store
          /\ pending' = [pending EXCEPT !.slots[i].pc = "answered",
                                        !.slots[i].out = r.out]
    /\ UNCHANGED <<build, idKey, last, deleted, prevRead>>

\* await this.delegate.<method>(params): the delegate takes the invocation of
\* call i and answers it from the records as they are now.
ConcInvoke(i) ==
    /\ pending.active
    /\ pending.slots[i].pc = "issued"
    /\ LET r == ServiceCall(pending.slots[i].call, store)
       IN /\ store' = r.store
          /\ pending' = [pending EXCEPT !.slots[i].pc = "answered",
                                        !.slots[i].out = r.out]
    /\ UNCHANGED <<build, idKey, last, deleted, prevRead>>

\* The method of call i resumes after its await and its caller gets the
\* outcome.
ConcSettle(i) ==
    /\ pending.active
    /\ pending.slots[i].pc = "answered"
    /\ pending' = [pending EXCEPT !.slots[i].pc = "settled"]
    /\ UNCHANGED <<build, idKey, store, last, deleted, prevRead>>

ConcNext ==
    \/ ConcIssue
    \/ \E i \in Slots : ConcInvoke(i)
    \/ \E i \in Slots : ConcSettle(i)

SpecConc == ConcInit /\ [][ConcNext]_vars

\* ------------------------------------------------------------- properties
ServiceOps == {"create", "findMany", "findOneById", "findUnique", "update", "delete"}

IdsOf(records) == {r.id : r \in records}

\* The message has x among its pieces.
Mentions(msg, x) == \E i \in 1..Len(msg) : msg[i] = x

\* The call's invocation of the delegate, and the delegate's answer to it.
Invoked(c) == c.calls[1]
Answer(c) == c.calls[1].ans

\* C1: whenever the delegate's findUnique answers null to the filter built
\* from id, Service.findOneById(id) fails with NotFoundError: it neither
\* returns null nor fails with InternalError.
C1_FindOneByIdNotFound ==
    (last.op = "findOneById" /\ Answer(last).tag = "null")
        => last.out.kind = "NotFoundError"

C1_Witness ==
    /\ last.op = "findOneById"
    /\ Answer(last).tag = "null"
    /\ last.out.kind = "NotFoundError"
    /\ store # {}

\* C2: a create whose payload collides with a stored record on a unique key
\* (the delegate raises its unique-constraint error) fails with ConflictError,
\* and the error names the colliding field. Stated in the reading most
\* favourable to the code: the name is owed only when the delegate lists the
\* fields.
C2_CreateCollisionConflict ==
    (/\ last.op = "create"
     /\ last.b = NoFault
     /\ Answer(last).tag = "throw")
        => /\ last.out.kind = "ConflictError"
           /\ Answer(last).err.target.shape = "list"
                => \A i \in 1..Len(Collision(store, last.dto)) :
                      Mentions(last.out.msg, Collision(store, last.dto)[i])

\* C3: Service.update(id, dto) and Service.delete(id) on an id that is not
\* stored, the delegate answering from the records, fail with NotFoundError.
C3_MutateAbsentNotFound ==
    [][(/\ last'.op \in {"update", "delete"}
        /\ last'.b = NoFault
        /\ last'.id \notin IdsOf(store))
           => last'.out.kind = "NotFoundError"]_vars

C3_Witness ==
    /\ last.op = "update"
    /\ last.b = NoFault
    /\ last.id \notin IdsOf(store)
    /\ store # {}
    /\ last.out.kind = "NotFoundError"

\* C4: Service.create(dto) with a payload that collides with no stored
\* record, the delegate answering from the records, hands dto unchanged to
\* the delegate as data and returns a Model that has dto's value in every
\* field of dto; the payload is handed over unchanged in every create.
C4_CreatePassThrough ==
    [][(last'.op = "create")
          => /\ Invoked(last').params.data = last'.dto
             /\ (last'.b = NoFault /\ Collision(store, last'.dto) = <<>>)
                   => /\ last'.out.kind = "model"
                      /\ \A f \in DOMAIN last'.dto :
                            last'.out.val[1][f] = last'.dto[f]
                      /\ last'.out.val[1] \in store']_vars

C4_Witness ==
    /\ last.op = "create"
    /\ last.out.kind = "model"
    /\ last.out.val[1] = last.dto
    /\ Cardinality(store) = 2

\* C5: a successful Service.delete(id) returns the record that was stored
\* under id and removes it, and from then on, until a create of that id
\* succeeds, Service.findOneById(id) fails with NotFoundError (the delegate
\* answering from the records).
C5_DeleteThenNotFound ==
    /\ [][(last'.op = "delete" /\ last'.out.kind = "model")
            => /\ last'.out.val[1] \in store
               /\ last'.out.val[1].id = last'.id
               /\ store' = store \ {last'.out.val[1]}]_vars
    /\ []((/\ last.op = "findOneById"
           /\ last.b = NoFault
           /\ last.id \in deleted)
              => last.out.kind = "NotFoundError")

C5_Witness ==
    /\ last.op = "findOneById"
    /\ last.b = NoFault
    /\ last.id \in deleted
    /\ last.out.kind = "NotFoundError"
    /\ store # {}

\* C6: a Service.update(id, dto) that returns a Model returns the record
\* stored under id with dto's values in the fields dto names and its other
\* fields as they were, and changes no other record; it returns one whenever
\* id is stored, the new values collide with no other record and the delegate
\* answers from the records.
C6_UpdateFrame ==
    [][(last'.op = "update")
          => /\ (last'.out.kind = "model")
                   => \E old \in store :
                         /\ old.id = last'.id
                         /\ last'.out.val[1] = Patched(old, last'.dto)
                         /\ store' = (store \ {old}) \cup {last'.out.val[1]}
             /\ (/\ last'.b = NoFault
                 /\ \E old \in store :
                       /\ old.id = last'.id
                       /\ Collision(store \ {old}, Patched(old, last'.dto)) = <<>>)
                   => last'.out.kind = "model"]_vars

C6_Witness ==
    /\ last.op = "update"
    /\ last.out.kind = "model"
    /\ DOMAIN last.dto = {"name"}
    /\ Cardinality(store) = 2

\* C7: two successive Service.findOneById(id) calls with the same arguments
\* and nothing between them, the delegate behaving the same way both times,
\* have equal outcomes, and no findOneById changes the stored records.
C7_ReadIdempotent ==
    /\ []((last.op = "findOneById" /\ prevRead.seen) => last.out = prevRead.out)
    /\ [][last'.op = "findOneById" => store' = store]_vars

C7_Witness ==
    /\ last.op = "findOneById"
    /\ prevRead.seen
    /\ last.b = NoFault
    /\ last.out.kind = "model"
    /\ last.out = prevRead.out

\* C8: for a query that matches no stored record, the delegate answering from
\* the records, Repository.findUnique returns null and raises nothing, and
\* Service.findUnique returns that null to its caller.
C8_FindUniqueNull ==
    (/\ last.op \in {"findUnique", "findOneById"}
     /\ last.b = NoFault
     /\ Matching(store, Invoked(last).params.where) = {})
        => /\ last.repo.kind = "null"
           /\ last.log = <<>>
           /\ last.op = "findUnique" => last.out.kind = "null"

C8_Witness ==
    /\ last.op = "findUnique"
    /\ last.b = NoFault
    /\ Matching(store, last.params.where) = {}
    /\ store # {}
    /\ last.repo.kind = "null"
    /\ last.out.kind = "null"

\* C9: whatever the delegate does, a Service operation that fails fails with
\* NotFoundError, ConflictError or InternalError.
C9_ThreeErrorKinds ==
    (last.op \in ServiceOps) => last.out.kind \in ReturnKinds \cup ErrorKinds

C9_Witness ==
    /\ last.op = "create"
    /\ last.repo.kind = "TypeError"
    /\ last.out.kind = "InternalError"

\* C10: the Repository turns a delegate failure that is a known request error
\* with the unique-constraint code into ConflictError in create and update,
\* one with the record-not-found code into NotFoundError in update and delete,
\* and every other failure of any operation into InternalError.
RepoOpOf(op) == IF op = "findOneById" THEN "findUnique" ELSE op

NormalizedKind(op, e) ==
    IF e.known /\ e.code = "P2002" /\ RepoOpOf(op) \in {"create", "update"}
    THEN "ConflictError"
    ELSE IF e.known /\ e.code = "P2025" /\ RepoOpOf(op) \in {"update", "delete"}
    THEN "NotFoundError"
    ELSE "InternalError"

C10_RepositoryNormalization ==
    (last.op # "none" /\ Answer(last).tag = "throw")
        => last.repo.kind = NormalizedKind(last.op, Answer(last).err)

\* The message of the InternalServerErrorException the Service method op
\* throws for identifier id.
SvcMessage(b0, op, id) ==
    CASE op = "create" -> MsgCreate(b0)
      [] op = "findMany" -> MsgFindMany(b0)
      [] op = "findOneById" -> MsgFindOneById(b0, id)
      [] op = "findUnique" -> MsgFindUnique(b0)
      [] op = "update" -> MsgUpdate(b0, id)
      [] op = "delete" -> MsgDelete(b0, id)

\* C11: in every Service operation a NotFoundError or ConflictError thrown by
\* the Repository reaches the caller as it is (same kind, same message), and
\* every other failure of the Repository call, an InternalError of the
\* Repository included, is replaced by an InternalError with the Service's
\* own message.
C11_RethrowOrWrap ==
    (last.op \in ServiceOps /\ last.repo.kind \notin ReturnKinds)
        => IF last.repo.kind \in {"NotFoundError", "ConflictError"}
           THEN last.out = last.repo
           ELSE /\ last.out = Thrown("InternalError",
                                     SvcMessage(build, last.op, last.id))
                /\ last.out.msg # last.repo.msg

C11_Witness ==
    /\ last.op = "update"
    /\ last.repo.kind = "ConflictError"
    /\ last.out = last.repo
    /\ Mentions(last.out.msg, "email")

\* The call c made again on records st with the delegate behaving as b.
Replay(c, st, b) ==
    CASE c.op = "create" -> SvcCreate(build, idKey, st, c.dto, c.params, b, "list")
      [] c.op = "findMany" -> SvcFindMany(build, idKey, st, c.params, b)
      [] c.op = "findOneById" -> SvcFindOneById(build, idKey, st, c.id, c.params, b)
      [] c.op = "findUnique" -> SvcFindUnique(build, idKey, st, c.params, b)
      [] c.op = "update" ->
            SvcUpdate(build, idKey, st, c.id, c.dto, c.params, b, "list")
      [] c.op = "delete" -> SvcDelete(build, idKey, st, c.id, b)
      [] c.op = "count" -> RepoCount(RepoVariant(build), st, c.params, b)

\* The delegate failures the method op does not recognise.
Unrecognised(op) == {f \in Faults : NormalizedKind(op, f) = "InternalError"}

\* C12: for the same operation and the same arguments, any two delegate
\* failures the operation does not recognise give the caller the same error
\* kind and message; the text and the code of the original error are in no
\* message the caller gets and are in the Repository's log line.
C12_FailureContentHidden ==
    (last.op # "none" /\ last.b \in Unrecognised(last.op))
        => /\ last.out.kind = "InternalError"
           /\ \A f \in Unrecognised(last.op) : Replay(last, store, f).out = last.out
           /\ ~Mentions(last.out.msg, last.b.text)
           /\ ~Mentions(last.out.msg, last.b.code)
           /\ \E i \in 1..Len(last.log) :
                 /\ last.log[i].src = "repository"
                 /\ last.log[i].error = <<last.b.text>>
                 /\ last.log[i].code = last.b.code

C12_Witness ==
    /\ last.op = "update"
    /\ last.b = RawError(TRUE, "P1001", NoTarget, "Can't reach database server")
    /\ last.out.kind = "InternalError"
    /\ store # {}

\* C13, as claimed: every NotFoundError of Service.findOneById, update and
\* delete has a message naming the entity and the identifier.
C13_NotFoundNamesEntityAndId ==
    (last.op \in {"findOneById", "update", "delete"}
     /\ last.out.kind = "NotFoundError")
        => /\ Mentions(last.out.msg, GetEntityName(FALSE))
           /\ Mentions(last.out.msg, ToString(last.id))

\* C13, amended: the NotFoundError of Service.findOneById names the
\* identifier, and the entity in the Service copies that have getEntityName;
\* the NotFoundError of update and delete is the Repository's, whose fixed
\* message names neither.
C13_NotFoundMessages ==
    (last.op \in {"findOneById", "update", "delete"}
     /\ last.out.kind = "NotFoundError")
        => IF last.op = "findOneById"
           THEN /\ Mentions(last.out.msg, ToString(last.id))
                /\ build # "generic" => Mentions(last.out.msg, GetEntityName(FALSE))
           ELSE /\ last.out = last.repo
                /\ last.out.msg = <<"Record to " \o last.op \o " not found.">>

C13_Witness ==
    /\ last.op = "findOneById"
    /\ last.out.kind = "NotFoundError"
    /\ last.id = 2
    /\ build = "backend"
    /\ Mentions(last.out.msg, "2")

\* C14 (fails): every unique-constraint violation the delegate raises in
\* Repository.create or Repository.update, whatever the shape of its target
\* metadata, becomes a ConflictError whose message carries the field names
\* when the metadata lists some and "details unavailable" otherwise.
C14_ConflictWhateverShape ==
    (last.op \in {"create", "update"}
     /\ Answer(last).tag = "throw"
     /\ Answer(last).err.known /\ Answer(last).err.code = "P2002")
        => LET t == Answer(last).err.target
           IN /\ last.repo.kind = "ConflictError"
              /\ IF t.shape = "list" /\ t.val # <<>>
                 THEN \A i \in 1..Len(t.val) : Mentions(last.repo.msg, t.val[i])
                 ELSE Mentions(last.repo.msg, DetailsUnavailable[1])

C16_MutationAtomic ==
    [][(last'.op \in {"create", "update", "delete"})
          => /\ last'.out.kind \in ErrorKinds \cup {"model"}
             /\ last'.out.kind \in ErrorKinds => store' = store
             /\ last'.out.kind = "model"
                   => LET m == last'.out.val[1]
                      IN /\ m \in Model
                         /\ last'.op = "create"
                               => /\ m.id \notin IdsOf(store)
                                  /\ store' = store \cup {m}
                         /\ last'.op = "update"
                               => \E old \in store :
                                     /\ old.id = last'.id /\ m.id = old.id
                                     /\ store' = (store \ {old}) \cup {m}
                         /\ last'.op = "delete"
                               => /\ m \in store /\ m.id = last'.id
                                  /\ store' = store \ {m}]_vars

C16_Witness ==
    /\ last.op = "update"
    /\ last.out.kind = "ConflictError"
    /\ last.b = NoFault
    /\ Cardinality(store) = 2

\* C17: every Service call, and Repository.count, invokes the delegate
\* exactly once, on the delegate method of the operation, whether the call
\* succeeds or fails: no lookup before an update or delete, no second try
\* after a failure.
C17_OneInvocation ==
    last.op # "none"
        => /\ Len(last.calls) = 1
           /\ Invoked(last).op = RepoOpOf(last.op)

C17_Witness ==
    /\ last.op = "delete"
    /\ last.out.kind = "InternalError"
    /\ Len(last.calls) = 1
    /\ store # {}

\* The context object the Repository method of op logs with a failure.
InputContext(op, params) ==
    CASE RepoOpOf(op) = "create" -> Context("data", params)
      [] RepoOpOf(op) = "findMany" -> Obj1("params", params)
      [] OTHER -> Context("where", params)

\* The lines of log the Repository wrote.
RepositoryLines(log) == {i \in 1..Len(log) : log[i].src = "repository"}

\* C18: when the delegate fails, the Repository writes exactly one log line,
\* holding the original error's text, its code and the input context of the
\* operation, before anything else is logged, on the ConflictError and
\* NotFoundError paths as on the InternalError path; when the delegate
\* answers, nothing is logged.
C18_FailureLoggedOnce ==
    last.op # "none"
        => IF Answer(last).tag = "throw"
           THEN /\ RepositoryLines(last.log) = {1}
                /\ last.log[1] =
                      [src |-> "repository", op |-> RepoOpOf(last.op),
                       error |-> <<Answer(last).err.text>>,
                       code |-> Answer(last).err.code,
                       context |-> InputContext(last.op, Invoked(last).params)]
           ELSE last.log = <<>>

C18_Witness ==
    /\ last.op = "delete"
    /\ last.b = NoFault
    /\ last.out.kind = "NotFoundError"
    /\ Len(last.log) = 1
    /\ last.log[1].code = "P2025"

\* Calls i and j, issued on records pending.base, have the outcomes and leave
\* the records they would with i run to its end before j starts.
SerialOrder(i, j) ==
    LET ri == ServiceCall(pending.slots[i].call, pending.base)
        rj == ServiceCall(pending.slots[j].call, ri.store)
    IN /\ pending.slots[i].out = ri.out
       /\ pending.slots[j].out = rj.out
       /\ store = rj.store

\* C19: two calls in flight at once on the same Service, in every
\* interleaving of their steps, end with the outcomes and the records of one
\* of the two sequential orders; a Model a call returns is of the id it
\* named; and a delete(id) with an update(id, dto) on a stored record, the
\* delegate answering from the records and dto colliding with no other
\* record, give two Models or one Model and one NotFoundError.
C19_Serializable ==
    (pending.active /\ \A i \in Slots : pending.slots[i].pc = "settled")
        => LET c1 == pending.slots[1].call
               c2 == pending.slots[2].call
               o1 == pending.slots[1].out
               o2 == pending.slots[2].out
           IN /\ SerialOrder(1, 2) \/ SerialOrder(2, 1)
              /\ \A i \in Slots :
                    (pending.slots[i].out.kind = "model"
                     /\ pending.slots[i].call.op # "create")
                       => pending.slots[i].out.val[1].id = pending.slots[i].call.id
              /\ (/\ c1.op = "delete" /\ c2.op = "update" /\ c1.id = c2.id
                  /\ c1.b = NoFault /\ c2.b = NoFault
                  /\ \E old \in pending.base :
                        /\ old.id = c1.id
                        /\ Collision(pending.base \ {old}, Patched(old, c2.dto)) = <<>>)
                    => \/ o1.kind = "model" /\ o2.kind = "model"
                       \/ o1.kind = "model" /\ o2.kind = "NotFoundError"

C19_Witness ==
    /\ pending.active
    /\ \A i \in Slots : pending.slots[i].pc = "settled"
    /\ pending.slots[1].call = ConcCall("delete", 1, EmptyObj, NoFault)
    /\ pending.slots[2].call = ConcCall("update", 1, [name |-> "Y"], NoFault)
    /\ pending.slots[1].out.kind = "model"
    /\ pending.slots[2].out.kind = "NotFoundError"
    /\ store # {}

\* C20: what the constructors bind stays bound: no call changes which
\* Repository copy the Service is wired to or the Service's identifier
\* field name; that name is "id", the constructor's default, and it is the
\* key of the filter of every findOneById, update and delete.
C20_BindingsFixed ==
    /\ [][build' = build /\ idKey' = idKey]_vars
    /\ [](idKey = "id")
    /\ [](last.op \in {"findOneById", "update", "delete"}
             => DOMAIN Invoked(last).params.where = {"id"})

C20_Witness ==
    /\ last.op = "update"
    /\ last.out.kind = "model"
    /\ Cardinality(store) = 2
    /\ idKey = "id"
    /\ Invoked(last).params.where = Obj1("id", 2)

\* C21: Service.findOneById(id), update(id, dto) and delete(id) hand over
\* params whose where filter has one key, the Service's identifier field,
\* with value id; update's params have dto, unchanged, as data; the include
\* and select the caller passed are in the params with the caller's values,
\* and the params have no other key.
C21_FilterAndForwarding ==
    last.op \in {"findOneById", "update", "delete"}
        => LET p == Invoked(last).params
               own == IF last.op = "update" THEN {"where", "data"} ELSE {"where"}
           IN /\ DOMAIN p = own \cup DOMAIN last.params
              /\ DOMAIN p.where = {idKey}
              /\ p.where[idKey] = last.id
              /\ last.op = "update" => p.data = last.dto
              /\ \A k \in DOMAIN last.params : p[k] = last.params[k]

C21_Witness ==
    /\ last.op = "update"
    /\ last.out.kind = "model"
    /\ last.params = [include |-> "inc", select |-> "sel"]
    /\ Invoked(last).params =
          [where |-> Obj1("id", last.id), data |-> [name |-> "Y"],
           include |-> "inc", select |-> "sel"]

====
